---- MODULE Spec2Model ----
(***************************************************************************)
(* SolarLogOnline: the client of the SolarLog / Enerest portal.            *)
(*                                                                         *)
(*   Spec          the session: login, the read operations, the requests   *)
(*                 they send and how each settles                          *)
(*   SpecAgg       the aggregation loop of get_combined_inverter_data,     *)
(*                 one step per record of the response                     *)
(*   SpecInverters the filter of get_inverters                             *)
(*                                                                         *)
(* JavaScript arrays are 0-based; the sequences below are 1-based, index   *)
(* i here is index i-1 there.                                              *)
(***************************************************************************)
EXTENDS Integers, Sequences, FiniteSets, Bags, TLC

VARIABLES
    access_token,   \* this.access_token
    common,         \* this.axios.defaults.headers.common
    inflight,       \* the operations awaiting their request, a bag
    exchanges,      \* token exchanges asked of the authentication endpoint so far
    lastLogin,      \* the response of the login that resolved last, if any
    settled,        \* how the operation that settled last ended
    payload,        \* the parsed response handed to a pure step (SpecAgg, SpecInverters)
    epoch_res,      \* get_combined_inverter_data: epoch_res, dataPoints held by reference
    heap,           \* the dataPoints arrays, by address
    data,           \* get_combined_inverter_data: data, key -> address of its array
    pos,            \* the record the for-of loop is at
    pc,             \* "loop" | "done" | "await" | "idle"
    inverters       \* get_inverters: the value returned

vars == <<access_token, common, inflight, exchanges, lastLogin, settled,
          payload, epoch_res, heap, data, pos, pc, inverters>>

sessionVars == <<access_token, common, inflight, exchanges, lastLogin, settled>>
pureVars    == <<payload, epoch_res, heap, data, pos, pc, inverters>>

----
(* Bounds *)

MaxLen == 2         \* longest dataPoints array of a response
MaxItems == 2       \* most records in a cross-epoch response
MaxComponents == 4  \* most components in a components response
MaxPending == 2     \* most operations awaiting their request at one time
MaxLogins == 2      \* most token exchanges in one run

----
(* JavaScript values *)

null      == [t |-> "null",      n |-> 0, s |-> ""]
undefined == [t |-> "undefined", n |-> 0, s |-> ""]
NaN       == [t |-> "NaN",       n |-> 0, s |-> ""]
Num(k)    == [t |-> "number",    n |-> k, s |-> ""]
Str(x)    == [t |-> "string",    n |-> 0, s |-> x]

\* {}
EmptyObject == [k \in {} |-> 0]

\* a[i], undefined past the end
ArrGet(a, i) == IF i \in DOMAIN a THEN a[i] ELSE undefined

\* a[i] = v; writing at the index one past the end grows the array
ArrSet(a, i, v) == IF i \in DOMAIN a THEN [a EXCEPT ![i] = v] ELSE Append(a, v)

\* x + y on the operands a dataPoints array can hold: null counts as 0,
\* undefined and NaN give NaN
JsAddNullPoisons(x, y) ==
    IF x.t = "number" /\ y.t = "number" THEN Num(x.n + y.n) ELSE NaN

JsAdd(x, y) ==
    IF x.t \in {"undefined", "NaN"} \/ y.t \in {"undefined", "NaN"}
    THEN NaN
    ELSE Num((IF x.t = "null" THEN 0 ELSE x.n) + (IF y.t = "null" THEN 0 ELSE y.n))

\* `${x}`
TemplateString(x) ==
    CASE x.t = "string"    -> x.s
      [] x.t = "undefined" -> "undefined"
      [] x.t = "null"      -> "null"
      [] x.t = "NaN"       -> "NaN"
      [] OTHER             -> ToString(x.n)

----
(* get_combined_inverter_data: the aggregation *)

\* item.name + "_" + item.date
ItemIndex(item) == item.name \o "_" \o item.date

\* JSON parsing gives every record an array of its own: record k of the
\* response holds the address k
ParseItems(p) ==
    [k \in 1..Len(p) |-> [name |-> p[k].name, date |-> p[k].date, dataPoints |-> k]]

ParseHeap(p) == [k \in 1..Len(p) |-> p[k].dataPoints]

\* the loop  for (const i in item.dataPoints)  from index i on;
\* acc is data[index], src is item.dataPoints, both addresses
RECURSIVE AddIntoNoNullCheck(_, _, _, _)
AddIntoNoNullCheck(h, acc, src, i) ==
    IF i > Len(h[src]) THEN h
    ELSE AddIntoNoNullCheck(
             [h EXCEPT ![acc] = ArrSet(h[acc], i, JsAdd(ArrGet(h[acc], i), h[src][i]))],
             acc, src, i + 1)

RECURSIVE AddIntoOverwrites(_, _, _, _)
AddIntoOverwrites(h, acc, src, i) ==
    IF i > Len(h[src]) THEN h
    ELSE IF ArrGet(h[acc], i) = null
         THEN AddIntoOverwrites(h, acc, src, i + 1)
         ELSE AddIntoOverwrites(
                  [h EXCEPT ![acc] = ArrSet(h[acc], i, h[src][i])], acc, src, i + 1)

RECURSIVE AddInto(_, _, _, _)
AddInto(h, acc, src, i) ==
    IF i > Len(h[src]) THEN h
    ELSE IF ArrGet(h[acc], i) = null
         THEN AddInto(h, acc, src, i + 1)
         ELSE AddInto(
                  [h EXCEPT ![acc] = ArrSet(h[acc], i, JsAdd(ArrGet(h[acc], i), h[src][i]))],
                  acc, src, i + 1)

\* one pass of the for-of loop body on item, from data d and heap h
LoopBodySeedsCopy(d, h, item) ==
    IF ItemIndex(item) \notin DOMAIN d
    THEN [data |-> d @@ (ItemIndex(item) :> Len(h) + 1),
          heap |-> Append(h, h[item.dataPoints])]
    ELSE [data |-> d, heap |-> AddInto(h, d[ItemIndex(item)], item.dataPoints, 1)]

LoopBody(d, h, item) ==
    IF ItemIndex(item) \notin DOMAIN d
    THEN [data |-> d @@ (ItemIndex(item) :> item.dataPoints), heap |-> h]
    ELSE [data |-> d, heap |-> AddInto(h, d[ItemIndex(item)], item.dataPoints, 1)]

\* the whole loop over items from record k on
RECURSIVE CombineFrom(_, _, _, _)
CombineFrom(d, h, items, k) ==
    IF k > Len(items) THEN [data |-> d, heap |-> h]
    ELSE CombineFrom(LoopBody(d, h, items[k]).data, LoopBody(d, h, items[k]).heap,
                     items, k + 1)

\* what get_combined_inverter_data returns for the parsed response p:
\* key -> the array data[key] refers to
Combined(p) ==
    LET r == CombineFrom(EmptyObject, ParseHeap(p), ParseItems(p), 1)
    IN  [key \in DOMAIN r.data |-> r.heap[r.data[key]]]

----
(* The responses the portal is taken to give *)

Values == {null, Num(1)}

DataPointArrays == UNION {[1..n -> Values] : n \in 0..MaxLen}

Names == {"P", "P_D"}
Dates == {"D", "D_D"}

SeriesRecords == [name : Names, date : Dates, dataPoints : DataPointArrays]

ExampleAB ==
    << [name |-> "P", date |-> "D", dataPoints |-> <<Num(1), Num(2), null>>],
       [name |-> "P", date |-> "D", dataPoints |-> <<Num(3), Num(4), Num(5)>>] >>

\* three records under one key: numbers only, and with nulls
ExampleThreeNumbers ==
    << [name |-> "P", date |-> "D", dataPoints |-> <<Num(1), Num(2)>>],
       [name |-> "P", date |-> "D", dataPoints |-> <<Num(3), Num(4)>>],
       [name |-> "P", date |-> "D", dataPoints |-> <<Num(5), Num(6)>>] >>

ExampleThreeNulls ==
    << [name |-> "P", date |-> "D", dataPoints |-> <<Num(1), null>>],
       [name |-> "P", date |-> "D", dataPoints |-> <<null, Num(2)>>],
       [name |-> "P", date |-> "D", dataPoints |-> <<Num(3), Num(4)>>] >>

CrossEpochResponses ==
    UNION {[1..n -> SeriesRecords] : n \in 0..MaxItems}
        \cup {ExampleAB, ExampleThreeNumbers, ExampleThreeNulls}

----
(* SpecAgg: the loop of get_combined_inverter_data on one response *)

NoLogin == [resolved |-> FALSE, access_token |-> undefined]

NoResult == [returned |-> FALSE, value |-> <<>>]

NothingSettled ==
    [op |-> "none", status |-> "none", body |-> <<>>, state |-> "none",
     result |-> NoResult, looped |-> 0, sent |-> 0]

\* the client as the constructor leaves it
SessionIdle ==
    /\ access_token = null
    /\ common = EmptyObject
    /\ inflight = EmptyBag
    /\ exchanges = 0
    /\ lastLogin = NoLogin
    /\ settled = NothingSettled

InitAgg ==
    /\ SessionIdle
    /\ payload \in CrossEpochResponses
    /\ epoch_res = ParseItems(payload)
    /\ heap = ParseHeap(payload)
    /\ data = EmptyObject
    /\ pos = 1
    /\ pc = "loop"
    /\ inverters = <<>>

LoopStep ==
    /\ pc = "loop"
    /\ pos <= Len(epoch_res)
    /\ data' = LoopBody(data, heap, epoch_res[pos]).data
    /\ heap' = LoopBody(data, heap, epoch_res[pos]).heap
    /\ pos' = pos + 1
    /\ UNCHANGED <<payload, epoch_res, pc, inverters>>
    /\ UNCHANGED sessionVars

LoopExit ==
    /\ pc = "loop"
    /\ pos > Len(epoch_res)
    /\ pc' = "done"
    /\ UNCHANGED <<payload, epoch_res, heap, data, pos, inverters>>
    /\ UNCHANGED sessionVars

NextAgg == LoopStep \/ LoopExit

SpecAgg == InitAgg /\ [][NextAgg]_vars

----
(* get_inverters: the filter *)

FilterInvertersAnyCase(components) ==
    SelectSeq(components, LAMBDA component : component.type \in {"Inverter", "inverter"})

\* components.filter(component => component.type is strictly 'Inverter')
FilterInverters(components) ==
    SelectSeq(components, LAMBDA component : component.type = "Inverter")

ComponentTypes == {"Inverter", "inverter", "Battery"}

\* the portal's component lists; a component's id is its place in the list
ComponentLists ==
    UNION {{[k \in 1..n |-> [id |-> k, type |-> ty[k]]] : ty \in [1..n -> ComponentTypes]}
           : n \in 0..MaxComponents}

InitInverters ==
    /\ SessionIdle
    /\ payload \in ComponentLists
    /\ epoch_res = <<>>
    /\ heap = <<>>
    /\ data = EmptyObject
    /\ pos = 1
    /\ pc = "await"
    /\ inverters = <<>>

\* get_inverters once components() has returned payload
FilterStep ==
    /\ pc = "await"
    /\ inverters' = FilterInverters(payload)
    /\ pc' = "done"
    /\ UNCHANGED <<payload, epoch_res, heap, data, pos>>
    /\ UNCHANGED sessionVars

NextInverters == FilterStep

SpecInverters == InitInverters /\ [][NextInverters]_vars

----
(* The session: login and the read operations *)

\* the headers given to Axios.create
defaultHeaders ==
    [h \in {"Accept", "Accept-Language", "Content-Type", "X-Requested-With", "Priority"} |->
        CASE h = "Accept"           -> "*/*"
          [] h = "Accept-Language"  -> "en-US,en;q=0.7,de-DE;q=0.3"
          [] h = "Content-Type"     -> "application/x-www-form-urlencoded; charset=UTF-8"
          [] h = "X-Requested-With" -> "XMLHttpRequest"
          [] h = "Priority"         -> "u=0"]

\* b's headers over a's
Merge(a, b) ==
    [h \in DOMAIN a \cup DOMAIN b |-> IF h \in DOMAIN b THEN b[h] ELSE a[h]]

\* the headers of a request sent through this.axios when it is called: the
\* instance's common headers, the instance's own, then the request's own
RequestHeadersWithoutCommon(c, own) == Merge(defaultHeaders, own)

RequestHeaders(c, own) == Merge(Merge(c, defaultHeaders), own)

\* `Bearer ${this.access_token}`
BearerHeaderNoScheme(token) == TemplateString(token)

BearerHeader(token) == "Bearer " \o TemplateString(token)

ReadOps ==
    {"components", "crossEpochChannels", "channels", "get_inverters",
     "get_channel_data_month", "get_channel_data_year", "get_channel_data_lifetime",
     "get_combined_inverter_data"}

\* the path each operation requests
Endpoint(op) ==
    CASE op = "login"                      -> "token"
      [] op = "components"                 -> "components"
      [] op = "get_inverters"              -> "components"
      [] op = "crossEpochChannels"         -> "cross-epoch/channels"
      [] op = "get_combined_inverter_data" -> "cross-epoch/channels"
      [] op = "channels"                   -> "channels"
      [] op = "get_channel_data_month"     -> "year/month"
      [] op = "get_channel_data_year"      -> "year"
      [] op = "get_channel_data_lifetime"  -> "lifetime"

\* how a request can end: a 2xx response, any other status, no response
Statuses == {"2xx", "non2xx", "transport"}

\* the token endpoint mints a new token for every exchange it grants, or
\* answers without the field
TokenResponses(i) ==
    {[access_token |-> Str("tok" \o ToString(i))], [access_token |-> undefined]}

SampleComponents ==
    << [id |-> 1, type |-> "Inverter"], [id |-> 2, type |-> "Battery"],
       [id |-> 3, type |-> "Inverter"] >>

\* the bodies the portal answers a request of operation op (call i) with
Bodies(op, i) ==
    CASE Endpoint(op) = "token"                -> TokenResponses(i)
      [] Endpoint(op) = "components"           -> {SampleComponents}
      [] Endpoint(op) = "cross-epoch/channels" -> {ExampleAB}
      [] OTHER                                 -> {<<>>}

\* what a read operation returns from res.data
Returned(op, body) ==
    CASE op = "get_inverters"              -> FilterInverters(body)
      [] op = "get_combined_inverter_data" -> Combined(body)
      [] OTHER                             -> body

\* how a read operation that has sent n requests ends once its request has:
\* axios rejects on anything but a 2xx response and the await rethrows;
\* looped counts the records the aggregation loop went through
ReadOutcomeSwallowsFailure(op, status, body, n) ==
    [op |-> op, status |-> status, body |-> IF status = "2xx" THEN body ELSE <<>>,
     state |-> "resolved",
     result |-> [returned |-> TRUE,
                 value |-> IF status = "2xx" THEN Returned(op, body) ELSE <<>>],
     looped |-> IF op = "get_combined_inverter_data" /\ status = "2xx"
                THEN Len(body) ELSE 0,
     sent |-> n]

ReadOutcome(op, status, body, n) ==
    IF status # "2xx"
    THEN [op |-> op, status |-> status, body |-> <<>>, state |-> "rejected",
          result |-> NoResult, looped |-> 0, sent |-> n]
    ELSE [op |-> op, status |-> status, body |-> body, state |-> "resolved",
          result |-> [returned |-> TRUE, value |-> Returned(op, body)],
          looped |-> IF op = "get_combined_inverter_data" THEN Len(body) ELSE 0,
          sent |-> n]

\* res.data.access_token
LoginToken(body) == body.access_token

\* how login ends once its request has
LoginOutcome(status, body, n) ==
    [op |-> "login", status |-> status, body |-> IF status = "2xx" THEN body ELSE <<>>,
     state |-> IF status # "2xx" THEN "rejected" ELSE "resolved",
     result |-> NoResult, looped |-> 0, sent |-> n]

Init ==
    /\ SessionIdle
    /\ payload = <<>>
    /\ epoch_res = <<>>
    /\ heap = <<>>
    /\ data = EmptyObject
    /\ pos = 1
    /\ pc = "idle"
    /\ inverters = <<>>

\* an operation sends its one request as it is called, then awaits it
Awaiting(op, method, own, id) ==
    [op |-> op, id |-> id, method |-> method, endpoint |-> Endpoint(op),
     headers |-> RequestHeaders(common, own), sent |-> 1]

ReadCalled(op) ==
    /\ inflight' = inflight (+) SetToBag({Awaiting(op, "GET", EmptyObject, 0)})
    /\ UNCHANGED <<access_token, common, exchanges, lastLogin, settled>>
    /\ UNCHANGED pureVars

login ==
    /\ BagCardinality(inflight) < MaxPending
    /\ exchanges < MaxLogins
    /\ exchanges' = exchanges + 1
    /\ inflight' = inflight (+) SetToBag({Awaiting("login", "POST", defaultHeaders, exchanges + 1)})
    /\ UNCHANGED <<access_token, common, lastLogin, settled>>
    /\ UNCHANGED pureVars

components ==
    /\ BagCardinality(inflight) < MaxPending
    /\ ReadCalled("components")

crossEpochChannels ==
    /\ BagCardinality(inflight) < MaxPending
    /\ ReadCalled("crossEpochChannels")

channels ==
    /\ BagCardinality(inflight) < MaxPending
    /\ ReadCalled("channels")

get_inverters ==
    /\ BagCardinality(inflight) < MaxPending
    /\ ReadCalled("get_inverters")

get_channel_data_month ==
    /\ BagCardinality(inflight) < MaxPending
    /\ ReadCalled("get_channel_data_month")

get_channel_data_year ==
    /\ BagCardinality(inflight) < MaxPending
    /\ ReadCalled("get_channel_data_year")

get_channel_data_lifetime ==
    /\ BagCardinality(inflight) < MaxPending
    /\ ReadCalled("get_channel_data_lifetime")

get_combined_inverter_data ==
    /\ BagCardinality(inflight) < MaxPending
    /\ ReadCalled("get_combined_inverter_data")

\* the request of a pending login ends; login resumes after its await
LoginSettles ==
    \E call \in BagToSet(inflight) : \E status \in Statuses :
      \E body \in Bodies("login", call.id) :
        /\ call.op = "login"
        /\ inflight' = inflight (-) SetToBag({call})
        /\ settled' = LoginOutcome(status, body, call.sent)
        /\ IF status # "2xx"
           THEN UNCHANGED <<access_token, common, lastLogin>>
           ELSE /\ access_token' = LoginToken(body)
                /\ common' = Merge(common,
                                   [h \in {"Authorization"} |-> BearerHeader(access_token')])
                /\ lastLogin' = [resolved |-> TRUE, access_token |-> body.access_token]
        /\ UNCHANGED exchanges
        /\ UNCHANGED pureVars

\* the request of a pending read operation ends; the operation resumes
ReadSettles ==
    \E call \in BagToSet(inflight) : \E status \in Statuses :
      \E body \in Bodies(call.op, 0) :
        /\ call.op \in ReadOps
        /\ inflight' = inflight (-) SetToBag({call})
        /\ settled' = ReadOutcome(call.op, status, body, call.sent)
        /\ UNCHANGED <<access_token, common, exchanges, lastLogin>>
        /\ UNCHANGED pureVars

Next ==
    \/ login
    \/ components
    \/ crossEpochChannels
    \/ channels
    \/ get_inverters
    \/ get_channel_data_month
    \/ get_channel_data_year
    \/ get_channel_data_lifetime
    \/ get_combined_inverter_data
    \/ LoginSettles
    \/ ReadSettles

Spec == Init /\ [][Next]_vars

----
(* Claims about the aggregation (SpecAgg) *)

\* the records the loop has been through that fall under key
Seen(key) == {k \in 1..(pos - 1) : ItemIndex(epoch_res[k]) = key}

\* the first of them
FirstSeen(key) == CHOOSE k \in Seen(key) : \A j \in Seen(key) : k <= j

\* the array the response held for record k, as it arrived
Arrived(k) == payload[k].dataPoints

\* the value of the output entry for key
Entry(key) == heap[data[key]]

\* sum over the records S of their arrived value at index i, null counting 0
RECURSIVE SumAt(_, _)
SumAt(S, i) ==
    IF S = {} THEN 0
    ELSE LET k == CHOOSE j \in S : TRUE
         IN  (IF Arrived(k)[i].t = "number" THEN Arrived(k)[i].n ELSE 0)
             + SumAt(S \ {k}, i)

EqualLength(S) == \A j, k \in S : Len(Arrived(j)) = Len(Arrived(k))

AllNumbers(S) == \A k \in S : \A i \in DOMAIN Arrived(k) : Arrived(k)[i].t = "number"

\* the orderings of a response
Orderings(p) ==
    {[k \in 1..Len(p) |-> p[f[k]]] :
        f \in {g \in [1..Len(p) -> 1..Len(p)] : \A a, b \in 1..Len(p) : g[a] = g[b] => a = b}}

\* a step keeps every null of every entry
C2_StickyStep ==
    \A key \in DOMAIN data : \A i \in DOMAIN heap[data[key]] :
        heap[data[key]][i] = null =>
            /\ key \in DOMAIN data'
            /\ data'[key] = data[key]
            /\ i \in DOMAIN heap'[data'[key]]
            /\ heap'[data'[key]][i] = null

\* the outcome for the response <<A, B>>
C2_ExampleResult ==
    (payload = ExampleAB /\ pc = "done") =>
        /\ DOMAIN data = {"P_D"}
        /\ Entry("P_D") = <<Num(4), Num(6), null>>

\* C2: nulls in the accumulator are sticky. A step of the loop that adds a
\* later record under a key leaves every index of that key's entry that was
\* null before the step null after it, whatever the record holds there; and
\* the records A = [1,2,null], B = [3,4,5] under P_D aggregate to [4,6,null].
C2_StickyNulls == [][C2_StickyStep]_vars /\ []C2_ExampleResult

\* a later record holding a number was added where the entry held null
C2_Witness ==
    /\ pc = "done"
    /\ payload = ExampleAB
    /\ Entry("P_D")[3] = null
    /\ Arrived(2)[3] = Num(5)

\* C3: records with different (name, date) pairs are accumulated into
\* different entries of the output, also when a name or a date holds '_'.
C3_DistinctPairsNeverMerge ==
    \A j, k \in 1..(pos - 1) :
        data[ItemIndex(epoch_res[j])] = data[ItemIndex(epoch_res[k])] =>
            /\ epoch_res[j].name = epoch_res[k].name
            /\ epoch_res[j].date = epoch_res[k].date

\* C6: the first record seen under a key seeds the entry by reference: the
\* entry is that record's own array (so the adds change it in place), the
\* arrays of all other records stay as they arrived, and an entry with one
\* record equals that record's array as it arrived.
C6_SeedByReference ==
    /\ \A key \in DOMAIN data :
          /\ Seen(key) # {}
          /\ data[key] = epoch_res[FirstSeen(key)].dataPoints
          /\ Cardinality(Seen(key)) = 1 => Entry(key) = Arrived(FirstSeen(key))
    /\ \A k \in 1..Len(epoch_res) :
          (k >= pos \/ k # FirstSeen(ItemIndex(epoch_res[k]))) =>
              heap[epoch_res[k].dataPoints] = Arrived(k)
    /\ Len(heap) = Len(epoch_res)

\* an add has changed the first record's own array
C6_Witness ==
    /\ pc = "done"
    /\ \E key \in DOMAIN data :
          /\ Cardinality(Seen(key)) >= 2
          /\ heap[epoch_res[FirstSeen(key)].dataPoints] # Arrived(FirstSeen(key))
          /\ Entry(key) = heap[epoch_res[FirstSeen(key)].dataPoints]

C10_NullOnlyFromFirst ==
    \A key \in DOMAIN data :
        EqualLength(Seen(key)) =>
            /\ Len(Entry(key)) = Len(Arrived(FirstSeen(key)))
            /\ \A i \in DOMAIN Entry(key) :
                  /\ Entry(key)[i] = null <=> Arrived(FirstSeen(key))[i] = null
                  /\ Arrived(FirstSeen(key))[i] # null =>
                        Entry(key)[i] = Num(SumAt(Seen(key), i))

\* a later record held null where the entry holds a number
C10_Witness ==
    /\ pc = "done"
    /\ \E key \in DOMAIN data :
          /\ EqualLength(Seen(key))
          /\ \E k \in Seen(key) : \E i \in DOMAIN Entry(key) :
                /\ k # FirstSeen(key)
                /\ Arrived(k)[i] = null
                /\ Entry(key)[i].t = "number"
                /\ Entry(key)[i] = Arrived(FirstSeen(key))[i]

----
(* Claims about the session (Spec) *)

\* the operations called in this step
Called == {c \in BagToSet(inflight') : CopiesIn(c, inflight') > CopiesIn(c, inflight)}

\* the operations whose request ended in this step
Ended == {c \in BagToSet(inflight) : CopiesIn(c, inflight') < CopiesIn(c, inflight)}

ReadsInFlight == {c \in BagToSet(inflight) : c.op \in ReadOps}

LoginsInFlight == {c \in BagToSet(inflight) : c.op = "login"}

\* the token the authentication endpoint grants exchange k
Granted(k) == "Bearer tok" \o ToString(k)

\* the headers of the reads called in a step, against the last login
C1_Step ==
    \A c \in Called :
        c.op \in ReadOps =>
            IF lastLogin.resolved
            THEN /\ "Authorization" \in DOMAIN c.headers
                 /\ lastLogin.access_token.t = "string" =>
                        c.headers["Authorization"] = "Bearer " \o lastLogin.access_token.s
                 /\ lastLogin.access_token.t = "undefined" =>
                        c.headers["Authorization"] = "Bearer undefined"
            ELSE "Authorization" \notin DOMAIN c.headers

\* C1: a read operation called after a login has resolved sends one
\* Authorization header, 'Bearer ' followed by the token the login that
\* resolved last stored; called when no login has resolved, it sends none.
C1_BearerOfLastLogin == [][C1_Step]_vars

\* of two logins the first settled last, resolving; a read called since
\* awaits its request with the first login's token
C1_Witness ==
    /\ exchanges = 2
    /\ settled.op = "login"
    /\ settled.state = "resolved"
    /\ lastLogin.resolved
    /\ lastLogin.access_token = Str("tok1")
    /\ LoginsInFlight = {}
    /\ \E c \in ReadsInFlight :
          /\ "Authorization" \in DOMAIN c.headers
          /\ c.headers["Authorization"] = "Bearer tok1"

\* a step in which a login without a granted token ends
C4_Step ==
    \A c \in Ended :
        (c.op = "login" /\ (settled'.status # "2xx" \/ settled'.body.access_token = undefined))
            => /\ settled'.state = "rejected"
               /\ access_token' = access_token
               /\ common' = common

\* C4: login rejects when the token endpoint answers with a status other
\* than 2xx and when a 2xx response holds no access_token; in both cases no
\* token is stored and no Authorization header installed.
C4_LoginRejectsWithoutToken == [][C4_Step]_vars

\* C5: a read operation whose request fails (a status other than 2xx, or no
\* response) rejects, returns nothing, has sent that one request only, and
\* get_combined_inverter_data has then not entered its loop.
C5_FailedRequestFailsOperation ==
    (settled.op \in ReadOps /\ settled.status # "2xx") =>
        /\ settled.state = "rejected"
        /\ ~settled.result.returned
        /\ settled.sent = 1
        /\ settled.looped = 0

\* the cross-epoch request of get_combined_inverter_data failed
C5_Witness ==
    /\ settled.op = "get_combined_inverter_data"
    /\ settled.status = "non2xx"
    /\ settled.state = "rejected"

\* the headers of the reads called in a step, against what is stored
C9_Step ==
    \A c \in Called :
        c.op \in ReadOps =>
            /\ ~lastLogin.resolved => "Authorization" \notin DOMAIN c.headers
            /\ lastLogin.resolved =>
                  /\ "Authorization" \in DOMAIN c.headers
                  /\ c.headers["Authorization"] =
                        "Bearer " \o (IF access_token.t = "string" THEN access_token.s
                                      ELSE "undefined")
            /\ access_token' = access_token
            /\ \A l \in LoginsInFlight : l \in BagToSet(inflight')

\* the reads in flight, against the logins in flight
C9_InFlight ==
    \A r \in ReadsInFlight :
        /\ ~lastLogin.resolved => "Authorization" \notin DOMAIN r.headers
        /\ \A l \in LoginsInFlight :
              "Authorization" \in DOMAIN r.headers =>
                  r.headers["Authorization"] # Granted(l.id)

\* C9: operations are not serialized against login. A read is called
\* whatever logins are in flight and its Authorization header is fixed by
\* what is stored as it is called: none while nothing is stored, else
\* 'Bearer ' and the stored token. No read in flight carries the token of a
\* login still in flight, and none carries any while no login has resolved.
C9_NotSerialized == [][C9_Step]_vars /\ []C9_InFlight

\* the second login, called before any login resolved, is still in flight;
\* a read called meanwhile carries the first login's token
C9_Witness ==
    /\ lastLogin.resolved
    /\ \E r \in ReadsInFlight : \E l \in LoginsInFlight :
          /\ l.id = 2
          /\ "Authorization" \notin DOMAIN l.headers
          /\ "Authorization" \in DOMAIN r.headers
          /\ r.headers["Authorization"] = Granted(1)

----
(* Claims about get_inverters (SpecInverters) *)

\* the strictly increasing maps from 1..n into 1..m
Increasing(n, m) == {f \in [1..n -> 1..m] : \A a, b \in 1..n : a < b => f[a] < f[b]}

\* C7: get_inverters returns exactly the records of type 'Inverter': each
\* returned record has that type, each such record of the list is returned,
\* and they come in the order of the list.
C7_OnlyInvertersInOrder ==
    pc = "done" =>
        /\ \A k \in DOMAIN inverters : inverters[k].type = "Inverter"
        /\ \A j \in DOMAIN payload :
              payload[j].type = "Inverter" => \E k \in DOMAIN inverters : inverters[k] = payload[j]
        /\ Len(inverters) = Cardinality({j \in DOMAIN payload : payload[j].type = "Inverter"})
        /\ \E f \in Increasing(Len(inverters), Len(payload)) :
              \A k \in DOMAIN inverters : inverters[k] = payload[f[k]]

\* inverters were picked out from between other components
C7_Witness ==
    /\ pc = "done"
    /\ Len(payload) >= 4
    /\ payload[1].type = "Battery"
    /\ payload[2].type = "Inverter"
    /\ payload[3].type = "inverter"
    /\ payload[4].type = "Inverter"
    /\ Len(inverters) = 2
    /\ inverters[1].id = 2
    /\ inverters[2].id = 4

====
